---- MODULE Spec2Model ----
(***************************************************************************)
(* Model of process_datasets.py: the batch coordinator run(), the          *)
(* per-dataset pipeline ProcessDataset.__call__ and get_result.            *)
(*                                                                         *)
(* External DIALS commands are opaque: each invocation nondeterministically*)
(* writes or does not write its output artifact and nondeterministically   *)
(* leaves its stderr empty or not.  The scheduling of easy_mp.parallel_map *)
(* is an environment: at most njobs worker processes, each running one     *)
(* call at a time; a worker process may be reused for a later dataset or   *)
(* replaced by a fresh one.                                                *)
(*                                                                         *)
(* Paths are sequences of components below the invocation root (<<>>).     *)
(* The filesystem holds the artifacts whose presence the program tests     *)
(* with os.path.isfile; whether any other artifact is present after its    *)
(* command is recorded with the command.                                   *)
(*                                                                         *)
(* The registry builder make_datasets_json.py has its own specification,   *)
(* BuilderSpec: image files appear on disk and write_datasets_json scans   *)
(* them into datasets.json.                                                *)
(***************************************************************************)
EXTENDS Integers, Sequences, FiniteSets, TLC

\* ---- bounds of the model ----
MaxDatasets == 2
MaxXtal == 2
MaxJobs == 2
MaxImages == 2

VARIABLES
  images,         \* image files on disk below the directory of the builder
  scanned,        \* patterns the builder has scanned since images changed
  registry_file,  \* state of the file named on the command line
  parameters,     \* datasets['parameters']
  datasets,       \* datasets['datasets']
  phase,          \* position of the main program
  exit,           \* how the program ended
  dirs,           \* directories that exist below the invocation root
  files,          \* <<directory, name>> of the artifacts that exist
  nextJob,        \* next position of the registry to dispatch
  cwd,            \* per worker process: os.getcwd()
  job,            \* per worker process: position being processed, 0 if idle
  pc,             \* per worker process: next statement of __call__
  expt,           \* per worker process: local variable expt
  call,           \* per registry position: record of the call of __call__
  completed,      \* finished calls in completion order
  results,        \* value returned by parallel_map
  summary         \* lines logged after 'Summary of results:'

vars == <<images, scanned, registry_file, parameters, datasets, phase, exit, dirs, files,
          nextJob, cwd, job, pc, expt, call, completed, results, summary>>

\* ---- paths and identifiers (lines 24-25) ----
Root == <<>>

SampleDir(p) == [pre |-> p.sample, num |-> 0]

GridDir(d) == [pre |-> "grid", num |-> d.grid]

XtalDir(d) == [pre |-> "xtal", num |-> d.xtal]

\* os.path.join(os.getcwd(), sample, f'grid{grid}', f'xtal{xtal:03}')
work_dir(base, p, d) == base \o <<SampleDir(p), GridDir(d), XtalDir(d)>>

\* the first three components of a path instead of the last three
First3(path) == IF Len(path) <= 3 THEN path ELSE SubSeq(path, 1, 3)

\* '/'.join(work_dir.split(os.path.sep)[-3:])
Last3(path) ==
  IF Len(path) <= 3 THEN path ELSE SubSeq(path, Len(path) - 2, Len(path))

dataset_id(wd) == Last3(wd)

\* os.makedirs(work_dir): every missing ancestor is created too
Prefixes(path) == {SubSeq(path, 1, k) : k \in 1..Len(path)}

\* os.path.isfile(name) in directory dir
isfile(dir, name) == <<dir, name>> \in files

\* a check that never finds the terminal artifact
never_run(dir) == FALSE

\* already run? (line 33), asked in the directory just entered
already_run(dir) == isfile(dir, "integrated.expt")

\* ---- results ----
None == [some |-> FALSE, dataset_id |-> <<>>, output_files |-> <<>>,
         total |-> 0, indexed |-> 0, unindexed |-> 0]

\* The locator (template or file) of a dataset, as it appears in a log line.
Locator == <<[pre |-> "locator", num |-> 0]>>

\* The rows of indexed.refl of an indexed workspace, with the two flags
\* get_result reads.  get_result returns only if at least one row is flagged
\* used_in_refinement: flex.mean of an empty selection raises (lines 169-179).
indexed_refl ==
  <<[indexed |-> TRUE, used_in_refinement |-> TRUE],
    [indexed |-> FALSE, used_in_refinement |-> FALSE]>>

IsIndexed(row) == row.indexed

\* a get_result that lists the output files on the skipped path too
get_result_with_files(id, dir, skipped) ==
  [some |-> TRUE,
   dataset_id |-> id,
   output_files |-> <<<<dir, "integrated.expt">>, <<dir, "integrated.refl">>>>,
   total |-> Len(indexed_refl),
   indexed |-> Len(SelectSeq(indexed_refl, IsIndexed)),
   unindexed |-> Len(indexed_refl) - Len(SelectSeq(indexed_refl, IsIndexed))]

\* get_result (lines 159-189): the counts are read from indexed.refl whether
\* or not the call was skipped; only output_files depends on skipped
get_result(id, dir, skipped) ==
  [some |-> TRUE,
   dataset_id |-> id,
   output_files |-> IF ~skipped
                      THEN <<<<dir, "integrated.expt">>, <<dir, "integrated.refl">>>>
                      ELSE <<>>,
   total |-> Len(indexed_refl),
   indexed |-> Len(SelectSeq(indexed_refl, IsIndexed)),
   unindexed |-> Len(indexed_refl) - Len(SelectSeq(indexed_refl, IsIndexed))]

\* ---- the inputs of a run ----
Workers == 1..MaxJobs

Descriptors == [grid : {1}, xtal : 1..MaxXtal]

Registries == UNION {[1..n -> Descriptors] : n \in 1..MaxDatasets}

\* spacegroup: None (JSON null), the trivial group, or a target group
Spacegroups == {"None", "P1", "P4"}

\* generate_mask and find_rotation_axis are option strings, "" disables
AllParameters ==
  [sample : {"S"},
   spacegroup : Spacegroups,
   generate_mask : {"", "untrusted.circle"},
   search_beam : BOOLEAN,
   find_rotation_axis : {"", "max_two_theta"},
   initial_index_P1 : BOOLEAN,
   njobs : 1..MaxJobs]

GenerateMaskEnabled(p) == p.generate_mask # ""

FindRotationAxisEnabled(p) == p.find_rotation_axis # ""

TrivialSpacegroup(p) == p.spacegroup \in {"None", "P1"}

\* the optional stages are all enabled or all disabled
Linked(p) ==
  /\ p.search_beam = GenerateMaskEnabled(p)
  /\ FindRotationAxisEnabled(p) = GenerateMaskEnabled(p)
  /\ p.initial_index_P1 = GenerateMaskEnabled(p)

\* Runs with one worker are explored for every combination of the optional
\* stages, runs with several workers for the linked combinations.
ParameterSpace == {p \in AllParameters : p.njobs > 1 => Linked(p)}

\* the registry builder's defaults (make_datasets_json.py lines 41-53)
DefaultParameters ==
  [sample |-> "S", spacegroup |-> "None", generate_mask |-> "untrusted.circle",
   search_beam |-> TRUE, find_rotation_axis |-> "", initial_index_P1 |-> FALSE,
   njobs |-> 1]

\* what the file named on the command line can be
RegistryFileStates == {"missing", "unreadable", "undecodable", "malformed", "valid"}

\* artifacts a workspace holds once an earlier run integrated it
CompleteFiles == {"indexed.expt", "refined_static.expt", "refined.expt", "integrated.expt"}

Unbound == "unbound"

\* artifacts of a workspace whose earlier run failed in integration
StaleFiles == {"indexed.expt", "refined_static.expt", "refined.expt"}

NoCommand == [stage |-> "none", input |-> "none", present |-> TRUE, made |-> TRUE]

NoCall == [status |-> "pending", work_dir |-> <<>>, newdir |-> FALSE,
           skipped |-> FALSE, cmds |-> <<>>, last |-> NoCommand,
           mask_failed |-> FALSE, log |-> <<>>, result |-> None]

Range(f) == {f[i] : i \in DOMAIN f}

\* An earlier run may have left workspaces: complete ones, and, for a
\* registry of one dataset, one that failed in integration.
Init ==
  /\ registry_file \in RegistryFileStates
  /\ IF registry_file = "valid"
       THEN /\ parameters \in ParameterSpace
            /\ datasets \in Registries
       ELSE /\ parameters = DefaultParameters
            /\ datasets = <<>>
  /\ images = {}
  /\ scanned = {}
  /\ phase = "main"
  /\ exit = [status |-> "none", names_file |-> FALSE]
  /\ \E done \in SUBSET {work_dir(Root, parameters, d) : d \in Range(datasets)} :
       \E stale \in SUBSET ({work_dir(Root, parameters, d) : d \in Range(datasets)} \ done) :
         /\ stale # {} => Len(datasets) = 1
         /\ dirs = UNION {Prefixes(wd) : wd \in done \cup stale}
         /\ files = {<<wd, f>> : wd \in done, f \in CompleteFiles}
                      \cup {<<wd, f>> : wd \in stale, f \in StaleFiles}
  /\ nextJob = 1
  /\ cwd = [w \in Workers |-> Root]
  /\ job = [w \in Workers |-> 0]
  /\ pc = [w \in Workers |-> "idle"]
  /\ expt = [w \in Workers |-> Unbound]
  /\ call = [i \in 1..Len(datasets) |-> NoCall]
  /\ completed = <<>>
  /\ results = <<>>
  /\ summary = [files |-> <<>>, table |-> <<>>]

\* ---- the main program ----

\* __main__ (lines 237-243): the file must exist
Main ==
  /\ phase = "main"
  /\ IF registry_file = "missing"
       THEN /\ phase' = "exited"
            /\ exit' = [status |-> "failure", names_file |-> TRUE]
       ELSE /\ phase' = "run"
            /\ exit' = exit
  /\ UNCHANGED <<images, scanned, registry_file, parameters, datasets, dirs, files, nextJob, cwd,
                 job, pc, expt, call, completed, results, summary>>

\* run (lines 210-222): open and json.load the registry.  Only
\* json.decoder.JSONDecodeError is caught; an OSError of open() and a
\* UnicodeDecodeError of f.read() end the program with a traceback.  The text
\* of an OSError names the file, the text of a UnicodeDecodeError does not.
ReadRegistry ==
  /\ phase = "run"
  /\ IF registry_file = "valid"
       THEN /\ phase' = "dispatch"
            /\ exit' = exit
       ELSE /\ phase' = "exited"
            /\ exit' = [status |-> "failure",
                        names_file |-> registry_file \in {"malformed", "unreadable"}]
  /\ UNCHANGED <<images, scanned, registry_file, parameters, datasets, dirs, files, nextJob, cwd,
                 job, pc, expt, call, completed, results, summary>>

\* ---- ProcessDataset.__call__, one action per external command ----

\* the statement that follows find_spots, search_beam_position and
\* find_rotation_axis (lines 81, 91, 100, 108)
AfterAxis(p) ==
  IF TrivialSpacegroup(p) THEN "index_P1"
  ELSE IF p.initial_index_P1 THEN "initial_index_P1" ELSE "index"

AfterBeam(p) == IF FindRotationAxisEnabled(p) THEN "find_rotation_axis" ELSE AfterAxis(p)

\* the axis search placed before the beam search
AxisBeforeBeam(p) ==
  IF FindRotationAxisEnabled(p) THEN "find_rotation_axis"
  ELSE IF p.search_beam THEN "search_beam_position" ELSE AfterAxis(p)

AfterSpots(p) == IF p.search_beam THEN "search_beam_position" ELSE AfterBeam(p)

\* easy_run.fully_buffered(command=cmd) of a stage on input: the record of
\* the call gets the command, whether its output artifact is present
\* afterwards and whether this command wrote it
Invoked(c, stage, input, present) ==
  [c EXCEPT !.cmds = Append(@, stage),
            !.last = [stage |-> stage, input |-> input, present |-> present,
                      made |-> present]]

Logged(c, msg, id) == [c EXCEPT !.log = Append(@, [msg |-> msg, id |-> id])]

\* the call at position i ends with 'return res' in worker w
Return(w, i, res, c) ==
  /\ call' = [call EXCEPT ![i] = [c EXCEPT !.status = "returned", !.result = res]]
  /\ completed' = Append(completed, [pos |-> i, raised |-> FALSE, result |-> res])
  /\ job' = [job EXCEPT ![w] = 0]
  /\ pc' = [pc EXCEPT ![w] = "idle"]
  /\ expt' = [expt EXCEPT ![w] = Unbound]

\* the call at position i ends with an exception in worker w
Raise(w, i, c) ==
  /\ call' = [call EXCEPT ![i] = [c EXCEPT !.status = "raised"]]
  /\ completed' = Append(completed, [pos |-> i, raised |-> TRUE, result |-> None])
  /\ job' = [job EXCEPT ![w] = 0]
  /\ pc' = [pc EXCEPT ![w] = "idle"]
  /\ expt' = [expt EXCEPT ![w] = Unbound]

\* the call goes on to statement next with local variable expt = e
Goto(w, i, next, e, c) ==
  /\ call' = [call EXCEPT ![i] = c]
  /\ pc' = [pc EXCEPT ![w] = next]
  /\ expt' = [expt EXCEPT ![w] = e]
  /\ UNCHANGED <<completed, job>>

Running(w) == phase = "dispatch" /\ job[w] # 0

\* a pool with one worker process per processor
processes_per_cpu(p) == MaxJobs

\* processes=self.datasets['parameters']['njobs'] (line 225)
processes(p) == p.njobs

\* a change of directory that every worker shares
chdir_shared(w, wd) == [v \in Workers |-> wd]

\* os.chdir(work_dir) in worker process w (line 30)
chdir(w, wd) == [cwd EXCEPT ![w] = wd]

\* parallel_map hands the next dataset to an idle worker, which executes
\* lines 24-35: work_dir from os.getcwd(), makedirs, chdir, already run?
Begin(w) ==
  /\ phase = "dispatch"
  /\ w <= processes(parameters)
  /\ job[w] = 0
  /\ nextJob <= Len(datasets)
  /\ LET i == nextJob
         wd == work_dir(cwd[w], parameters, datasets[i])
         id == dataset_id(wd)
         c == [call[i] EXCEPT !.status = "running", !.work_dir = wd,
                              !.newdir = wd \notin dirs]
     IN /\ nextJob' = i + 1
        /\ dirs' = dirs \cup Prefixes(wd)
        /\ cwd' = chdir(w, wd)
        /\ IF already_run(wd)
             THEN /\ Return(w, i, get_result(id, wd, TRUE),
                            Logged([c EXCEPT !.skipped = TRUE], "Skipping", id))
             ELSE /\ call' = [call EXCEPT ![i] = c]
                  /\ job' = [job EXCEPT ![w] = i]
                  /\ pc' = [pc EXCEPT ![w] = "import"]
                  /\ UNCHANGED <<expt, completed>>
  /\ UNCHANGED <<images, scanned, registry_file, parameters, datasets, phase, exit, files,
                 results, summary>>

\* a worker process that is idle is replaced by a fresh one, forked from the
\* main program, whose working directory is the invocation root
Respawn(w) ==
  /\ phase = "dispatch"
  /\ w <= processes(parameters)
  /\ job[w] = 0
  /\ cwd[w] # Root
  /\ nextJob <= Len(datasets)
  /\ cwd' = [cwd EXCEPT ![w] = Root]
  /\ UNCHANGED <<images, scanned, registry_file, parameters, datasets, phase, exit, dirs, files,
                 nextJob, job, pc, expt, call, completed, results, summary>>

\* import (lines 37-52): non-empty stderr aborts
Import(w) ==
  /\ Running(w)
  /\ pc[w] = "import"
  /\ \E err \in BOOLEAN, made \in BOOLEAN :
       LET i == job[w]
           c == Invoked(call[i], "import", "locator", made)
       IN IF err
            THEN Return(w, i, None, Logged(c, "import failed", Locator))
            ELSE IF GenerateMaskEnabled(parameters)
                   THEN Goto(w, i, "generate_mask", expt[w], c)
                   ELSE Goto(w, i, "find_spots", "imported.expt", c)
  /\ UNCHANGED <<images, scanned, registry_file, parameters, datasets, phase, exit, dirs, files,
                 nextJob, cwd, results, summary>>

\* generate mask (lines 55-60)
GenerateMask(w) ==
  /\ Running(w)
  /\ pc[w] = "generate_mask"
  /\ \E err \in BOOLEAN, made \in BOOLEAN :
       LET i == job[w]
           c == Invoked(call[i], "generate_mask", "imported.expt", made)
       IN Goto(w, i, "apply_mask", expt[w], [c EXCEPT !.mask_failed = ~made])
  /\ UNCHANGED <<images, scanned, registry_file, parameters, datasets, phase, exit, dirs, files,
                 nextJob, cwd, results, summary>>

\* apply mask (lines 62-69): expt is assigned only if stderr is empty
ApplyMask(w) ==
  /\ Running(w)
  /\ pc[w] = "apply_mask"
  /\ \E err \in BOOLEAN, made \in BOOLEAN :
       LET i == job[w]
           c == Invoked(call[i], "apply_mask", "imported.expt", made)
       IN Goto(w, i, "find_spots", IF err THEN expt[w] ELSE "masked.expt",
               [c EXCEPT !.mask_failed = @ \/ ~made])
  /\ UNCHANGED <<images, scanned, registry_file, parameters, datasets, phase, exit, dirs, files,
                 nextJob, cwd, results, summary>>

\* find spots (lines 73-78): building the command reads expt, which raises
\* UnboundLocalError if no branch assigned it
FindSpots(w) ==
  /\ Running(w)
  /\ pc[w] = "find_spots"
  /\ LET i == job[w]
     IN IF expt[w] = Unbound
          THEN Raise(w, i, call[i])
          ELSE \E err \in BOOLEAN, made \in BOOLEAN :
                 Goto(w, i, AfterSpots(parameters), expt[w],
                      Invoked(call[i], "find_spots", expt[w], made))
  /\ UNCHANGED <<images, scanned, registry_file, parameters, datasets, phase, exit, dirs, files,
                 nextJob, cwd, results, summary>>

\* an optional stage that replaces expt by its output if its stderr is empty
\* (lines 84-88, 94-98, 111-115)
Optional(w, stage, artifact, next) ==
  \E err \in BOOLEAN, made \in BOOLEAN :
    Goto(w, job[w], next, IF err THEN expt[w] ELSE artifact,
         Invoked(call[job[w]], stage, expt[w], made))

\* search beam position (lines 80-88)
SearchBeam(w) ==
  /\ Running(w)
  /\ pc[w] = "search_beam_position"
  /\ Optional(w, "search_beam_position", "optimised_beam.expt", AfterBeam(parameters))
  /\ UNCHANGED <<images, scanned, registry_file, parameters, datasets, phase, exit, dirs, files,
                 nextJob, cwd, results, summary>>

\* find rotation axis (lines 90-98)
FindRotationAxis(w) ==
  /\ Running(w)
  /\ pc[w] = "find_rotation_axis"
  /\ Optional(w, "find_rotation_axis", "optimised_axis.expt", AfterAxis(parameters))
  /\ UNCHANGED <<images, scanned, registry_file, parameters, datasets, phase, exit, dirs, files,
                 nextJob, cwd, results, summary>>

\* a gate that tests whether the command's stderr is empty instead of whether
\* the artifact exists
GatedOnStderr(w, stage, input, artifact, reason, next) ==
  \E err \in BOOLEAN, made \in BOOLEAN :
    LET i == job[w]
        after == IF made THEN files \cup {<<cwd[w], artifact>>} ELSE files
        c == [Invoked(call[i], stage, input, <<cwd[w], artifact>> \in after)
                EXCEPT !.last.made = made]
    IN /\ files' = after
       /\ IF err
            THEN Return(w, i, None, Logged(c, reason, dataset_id(cwd[w])))
            ELSE Goto(w, i, next, expt[w], c)

\* a stage whose output artifact gates the pipeline: run the command, then
\* 'if not os.path.isfile(artifact): log; return'
Gated(w, stage, input, artifact, reason, next) ==
  \E err \in BOOLEAN, made \in BOOLEAN :
    LET i == job[w]
        after == IF made THEN files \cup {<<cwd[w], artifact>>} ELSE files
        c == [Invoked(call[i], stage, input, <<cwd[w], artifact>> \in after)
                EXCEPT !.last.made = made]
    IN /\ files' = after
       /\ IF <<cwd[w], artifact>> \notin after
            THEN Return(w, i, None, Logged(c, reason, dataset_id(cwd[w])))
            ELSE Goto(w, i, next, expt[w], c)

\* index in P1 (lines 100-106, 122-124)
IndexP1(w) ==
  /\ Running(w)
  /\ pc[w] = "index_P1"
  /\ Gated(w, "index", expt[w], "indexed.expt", "failed to index", "refine_static")
  /\ UNCHANGED <<images, scanned, registry_file, parameters, datasets, phase, exit, dirs,
                 nextJob, cwd, results, summary>>

\* initial index in P1 before indexing in the space group (lines 108-115)
InitialIndexP1(w) ==
  /\ Running(w)
  /\ pc[w] = "initial_index_P1"
  /\ Optional(w, "initial_index_P1", "P1.expt", "index")
  /\ UNCHANGED <<images, scanned, registry_file, parameters, datasets, phase, exit, dirs, files,
                 nextJob, cwd, results, summary>>

\* index in the space group (lines 117-124)
Index(w) ==
  /\ Running(w)
  /\ pc[w] = "index"
  /\ Gated(w, "index_space_group", expt[w], "indexed.expt", "failed to index",
           "refine_static")
  /\ UNCHANGED <<images, scanned, registry_file, parameters, datasets, phase, exit, dirs,
                 nextJob, cwd, results, summary>>

\* refine (static) (lines 126-134)
RefineStatic(w) ==
  /\ Running(w)
  /\ pc[w] = "refine_static"
  /\ Gated(w, "refine_static", "indexed.expt", "refined_static.expt",
           "failed in intitial refinement", "refine")
  /\ UNCHANGED <<images, scanned, registry_file, parameters, datasets, phase, exit, dirs,
                 nextJob, cwd, results, summary>>

\* refine (scan varying) (lines 136-144)
Refine(w) ==
  /\ Running(w)
  /\ pc[w] = "refine"
  /\ Gated(w, "refine", "refined_static.expt", "refined.expt",
           "failed in scan varying refinement", "integrate")
  /\ UNCHANGED <<images, scanned, registry_file, parameters, datasets, phase, exit, dirs,
                 nextJob, cwd, results, summary>>

\* integrate and success (lines 146-157)
Integrate(w) ==
  /\ Running(w)
  /\ pc[w] = "integrate"
  /\ \E err \in BOOLEAN, made \in BOOLEAN :
       LET i == job[w]
           after == IF made THEN files \cup {<<cwd[w], "integrated.expt">>} ELSE files
           c == [Invoked(call[i], "integrate", "refined.expt",
                         <<cwd[w], "integrated.expt">> \in after)
                   EXCEPT !.last.made = made]
           id == dataset_id(cwd[w])
       IN /\ files' = after
          /\ IF <<cwd[w], "integrated.expt">> \notin after
               THEN Return(w, i, None, Logged(c, "failed in integration", id))
               ELSE Return(w, i, get_result(id, cwd[w], FALSE),
                           Logged(c, "processed successfully", id))
  /\ UNCHANGED <<images, scanned, registry_file, parameters, datasets, phase, exit, dirs,
                 nextJob, cwd, results, summary>>

\* ---- run: after parallel_map ----

\* results in completion order
completion_order == FALSE

\* preserve_order=True (line 226)
preserve_order == TRUE

\* the list parallel_map returns once every call has returned: by input
\* position if order is preserved, else by completion
Collected(done, keep_order) ==
  IF keep_order
    THEN [i \in 1..Len(done) |-> done[CHOOSE k \in 1..Len(done) : done[k].pos = i].result]
    ELSE [k \in 1..Len(done) |-> done[k].result]

\* parallel_map returns (lines 223-227)
Collect ==
  /\ phase = "dispatch"
  /\ Len(completed) = Len(datasets)
  /\ \A k \in 1..Len(completed) : ~completed[k].raised
  /\ results' = Collected(completed, preserve_order)
  /\ phase' = "summary"
  /\ UNCHANGED <<images, scanned, registry_file, parameters, datasets, exit, dirs, files, nextJob,
                 cwd, job, pc, expt, call, completed, summary>>

\* parallel_map re-raises the exception of a call in the main program, which
\* ends with a traceback
Traceback ==
  /\ phase = "dispatch"
  /\ \E k \in 1..Len(completed) : completed[k].raised
  /\ phase' = "exited"
  /\ exit' = [status |-> "failure", names_file |-> FALSE]
  /\ UNCHANGED <<images, scanned, registry_file, parameters, datasets, dirs, files, nextJob,
                 cwd, job, pc, expt, call, completed, results, summary>>

IsResult(r) == r.some

HasOutput(r) == Len(r.output_files) > 0

\* every entry of the list, None included
every_result(rs) == rs

successful_results(rs) == SelectSeq(rs, IsResult)

\* the log after parallel_map (lines 228-236)
Summarise ==
  /\ phase = "summary"
  /\ summary' = [files |-> SelectSeq(successful_results(results), HasOutput),
                 table |-> successful_results(results)]
  /\ phase' = "exited"
  /\ exit' = [status |-> "success", names_file |-> FALSE]
  /\ UNCHANGED <<images, scanned, registry_file, parameters, datasets, dirs, files, nextJob,
                 cwd, job, pc, expt, call, completed, results>>

Next ==
  \/ Main
  \/ ReadRegistry
  \/ \E w \in Workers : Begin(w)
  \/ \E w \in Workers : Respawn(w)
  \/ \E w \in Workers : Import(w)
  \/ \E w \in Workers : GenerateMask(w)
  \/ \E w \in Workers : ApplyMask(w)
  \/ \E w \in Workers : FindSpots(w)
  \/ \E w \in Workers : SearchBeam(w)
  \/ \E w \in Workers : FindRotationAxis(w)
  \/ \E w \in Workers : IndexP1(w)
  \/ \E w \in Workers : InitialIndexP1(w)
  \/ \E w \in Workers : Index(w)
  \/ \E w \in Workers : RefineStatic(w)
  \/ \E w \in Workers : Refine(w)
  \/ \E w \in Workers : Integrate(w)
  \/ Collect
  \/ Traceback
  \/ Summarise

Spec == Init /\ [][Next]_vars

\* ---- the registry builder (make_datasets_json.py) ----

\* A token of a path that may hold a number: the directory component with
\* 'grid' in it, the part of the file name with 'xtal' in it.  It is absent,
\* or does not end in an integer, or ends in the integer n.
Tokens ==
  {[kind |-> "absent", n |-> 0], [kind |-> "garbled", n |-> 0]}
    \cup {[kind |-> "number", n |-> n] : n \in 0..MaxXtal}

Stems == {"a", "b"}

Frames == {0, 1}

\* the image file [grid<g>/]<stem>[_xtal<x>]_<frame>.mrc
Images == [grid : Tokens, stem : Stems, xtal : Tokens, frame : Frames]

\* the patterns of the command line: '*_0000.mrc' and '*.mrc'
Patterns == {"first_frame", "every_frame"}

\* glob.glob('**/' + template, recursive=True) (line 80), as a set
glob(pattern) == {f \in images : pattern = "every_frame" \/ f.frame = 0}

\* make_template (lines 56-58): the frame number becomes ####
make_template(f) == [grid |-> f.grid, stem |-> f.stem, xtal |-> f.xtal]

\* int(token[4:]), None if there is no token or on ValueError
\* (lines 60-65, 67-76); None is {} and the integer n is {n}
get_xtal(f) == IF f.xtal.kind = "number" THEN {f.xtal.n} ELSE {}

get_grid(f) == IF f.grid.kind = "number" THEN {f.grid.n} ELSE {}

\* 'v if v else 1' (lines 82-83): None and 0 are both false
OrOne(v) == IF v = {} \/ v = {0} THEN 1 ELSE CHOOSE n \in v : TRUE

\* the dict appended for a file (lines 81-84)
descriptor(f) ==
  [template |-> make_template(f), grid |-> OrOne(get_grid(f)),
   xtal |-> OrOne(get_xtal(f))]

\* key=lambda x: (x['grid'], x['xtal']), compared as tuples
KeyLeq(a, b) == a.grid < b.grid \/ (a.grid = b.grid /\ a.xtal <= b.xtal)

\* sorted(): stable, so an entry goes behind the entries whose key is not
\* greater
RECURSIVE Insert(_, _)
Insert(seq, x) ==
  IF seq = <<>> THEN <<x>>
  ELSE IF KeyLeq(seq[Len(seq)], x) THEN Append(seq, x)
  ELSE Append(Insert(SubSeq(seq, 1, Len(seq) - 1), x), seq[Len(seq)])

RECURSIVE sorted(_)
sorted(seq) ==
  IF seq = <<>> THEN <<>>
  ELSE Insert(sorted(SubSeq(seq, 1, Len(seq) - 1)), seq[Len(seq)])

\* the orders in which glob can list a set of files
Listings(S) ==
  {l \in [1..Cardinality(S) -> S] : \A i, j \in DOMAIN l : i # j => l[i] # l[j]}

\* generate_datasets (lines 78-85) for one listing of glob
generate_datasets(listing) == sorted([k \in DOMAIN listing |-> descriptor(listing[k])])

\* a merge that appends every generated descriptor
AnyDescriptor(ds, old) == TRUE

\* 'ds not in d["datasets"]' (line 98)
IsNew(ds, old) == \A k \in 1..Len(old) : old[k] # ds

\* the new entries of a scan (line 98)
new_datasets(generated, old) ==
  sorted(SelectSeq(generated, LAMBDA ds : IsNew(ds, old)))

BuilderInit ==
  /\ images = {}
  /\ scanned = {}
  /\ registry_file \in {"missing", "malformed"}
  /\ parameters = DefaultParameters
  /\ datasets = <<>>
  /\ phase = "builder"
  /\ exit = [status |-> "none", names_file |-> FALSE]
  /\ dirs = {}
  /\ files = {}
  /\ nextJob = 1
  /\ cwd = [w \in Workers |-> Root]
  /\ job = [w \in Workers |-> 0]
  /\ pc = [w \in Workers |-> "idle"]
  /\ expt = [w \in Workers |-> Unbound]
  /\ call = <<>>
  /\ completed = <<>>
  /\ results = <<>>
  /\ summary = [files |-> <<>>, table |-> <<>>]

\* data collection writes another image file
NewImage ==
  /\ phase = "builder"
  /\ Cardinality(images) < MaxImages
  /\ \E f \in Images \ images : images' = images \cup {f}
  /\ scanned' = {}
  /\ UNCHANGED <<registry_file, parameters, datasets, phase, exit, dirs, files,
                 nextJob, cwd, job, pc, expt, call, completed, results, summary>>

\* one run of the builder: write_datasets_json(template) (lines 87-103)
WriteDatasetsJson ==
  /\ phase = "builder"
  /\ \E pattern \in Patterns : \E listing \in Listings(glob(pattern)) :
       IF registry_file = "missing"
         THEN /\ registry_file' = "valid"
              /\ parameters' = DefaultParameters
              /\ datasets' = generate_datasets(listing)
              /\ scanned' = scanned \cup {pattern}
              /\ exit' = [status |-> "success", names_file |-> FALSE]
         ELSE IF registry_file = "malformed"
           THEN /\ exit' = [status |-> "failure", names_file |-> TRUE]
                /\ UNCHANGED <<registry_file, parameters, datasets, scanned>>
           ELSE /\ datasets' = datasets \o new_datasets(generate_datasets(listing), datasets)
                /\ scanned' = scanned \cup {pattern}
                /\ exit' = [status |-> "success", names_file |-> FALSE]
                /\ UNCHANGED <<registry_file, parameters>>
  /\ UNCHANGED <<images, phase, dirs, files, nextJob, cwd, job, pc, expt, call,
                 completed, results, summary>>

BuilderNext == NewImage \/ WriteDatasetsJson

BuilderSpec == BuilderInit /\ [][BuilderNext]_vars

\* ---- properties ----

Positions == DOMAIN call

\* the identifier sample/grid{G}/xtal{C:03} of a descriptor
IdOf(d) == <<SampleDir(parameters), GridDir(d), XtalDir(d)>>

Finished == phase = "summary" \/ (phase = "exited" /\ exit.status = "success")

\* C1: the list the batch run returns has one position per dataset of the
\* registry, and position i holds what the call for the i-th dataset
\* returned, whatever the order in which the calls completed.
C1_ResultsInInputOrder ==
  Finished =>
    /\ Len(results) = Len(datasets)
    /\ \A i \in Positions : results[i] = call[i].result

\* two datasets completed in the opposite order of the registry, with
\* different outcomes
C1_Witness ==
  /\ Finished
  /\ Len(completed) = 2
  /\ completed[1].pos = 2
  /\ call[1].result # call[2].result

GatingStages == {"index", "index_space_group", "refine_static", "refine", "integrate"}

\* the call ended by returning None after logging a line with its identifier
AbortedWithReason(c) ==
  /\ c.status = "returned"
  /\ ~c.result.some
  /\ c.log # <<>>
  /\ c.log[Len(c.log)].id = dataset_id(c.work_dir)

\* C3 as stated: whenever any stage has run and its output artifact is
\* missing afterwards, the call has returned None with a logged reason that
\* contains the dataset identifier, and has not raised.
C3_EveryStageAborts ==
  \A i \in Positions :
    (call[i].last.stage # "none" /\ ~call[i].last.present) => AbortedWithReason(call[i])

\* C3 amended: whenever indexing, static refinement, scan-varying refinement
\* or integration has run and its output artifact is missing afterwards, the
\* call has returned None with a logged reason that contains the dataset
\* identifier, and has not raised.
C3_GatingStageAborts ==
  \A i \in Positions :
    (call[i].last.stage \in GatingStages /\ ~call[i].last.present)
      => AbortedWithReason(call[i])

C3_Witness ==
  \E i \in Positions :
    /\ call[i].last.stage = "refine"
    /\ ~call[i].last.present
    /\ AbortedWithReason(call[i])

\* C4: while the stages of a dataset run, the working directory is
\* <invocation root>/sample/grid{grid}/xtal{xtal:03}.
C4_WorkDirBelowRoot ==
  \A w \in Workers :
    job[w] # 0 => cwd[w] = work_dir(Root, parameters, datasets[job[w]])

\* C5: a Dataset Result returned for a dataset carries the identifier built
\* from the sample name and the dataset's own grid and crystal index.
C5_DatasetIdOfOwnDescriptor ==
  \A i \in Positions :
    call[i].result.some => call[i].result.dataset_id = IdOf(datasets[i])

\* a result returned by a call that ran below another dataset's directory
C5_Witness ==
  \E i \in Positions :
    /\ call[i].result.some
    /\ Len(call[i].work_dir) > 3
    /\ call[i].work_dir[3] # XtalDir(datasets[i])

\* C6: with a valid registry the run ends successfully, with every dataset
\* processed to its own end and the summary logged, whatever failed.
C6_RunSurvivesFailures ==
  (registry_file = "valid" /\ phase = "exited") =>
    /\ exit.status = "success"
    /\ \A i \in Positions : call[i].status = "returned"
    /\ Len(summary.table) = Cardinality({i \in Positions : call[i].result.some})

\* C7: a second call on a dataset whose first call was skipped returns the
\* same result, runs no external command and creates no directory.
C7_SecondCallSkipsToo ==
  \A i, j \in Positions :
    (/\ i < j
     /\ datasets[i] = datasets[j]
     /\ call[i].status = "returned"
     /\ call[i].skipped
     /\ call[j].status # "pending")
    => (/\ call[j].status = "returned"
        /\ call[j].result = call[i].result
        /\ call[j].cmds = <<>>
        /\ ~call[j].newdir)

\* C8: with mask generation enabled, once both mask commands have run and
\* pixels.mask or masked.expt is missing, the call has not raised and
\* find_spots, once invoked, was given imported.expt.
C8_MaskFailureFallsBack ==
  \A i \in Positions :
    (/\ GenerateMaskEnabled(parameters)
     /\ call[i].mask_failed
     /\ call[i].last.stage # "generate_mask")
    => (/\ call[i].status # "raised"
        /\ call[i].last.stage = "find_spots" => call[i].last.input = "imported.expt")

\* the stages after which expt may be replaced, and the artifact of each
SwitchingStages ==
  {"apply_mask", "search_beam_position", "find_rotation_axis", "initial_index_P1"}

ArtifactOf(stage) ==
  CASE stage = "apply_mask" -> "masked.expt"
    [] stage = "search_beam_position" -> "optimised_beam.expt"
    [] stage = "find_rotation_axis" -> "optimised_axis.expt"
    [] stage = "initial_index_P1" -> "P1.expt"

\* C9: after every stage but import, whether the call goes on and with which
\* artifact depends only on the presence of the stage's output artifact: no
\* call ends in an exception, and right after a stage that may replace the
\* current artifact, the current artifact is the stage's output exactly if
\* that output is present.
C9_OnlyArtifactsDecide ==
  /\ \A i \in Positions : call[i].status # "raised"
  /\ \A w \in Workers :
       (job[w] # 0 /\ call[job[w]].last.stage \in SwitchingStages)
         => ((expt[w] = ArtifactOf(call[job[w]].last.stage)) <=> call[job[w]].last.present)

\* C10: if the registry file is missing, unreadable or unparsable, the run
\* ends with a failure exit and a message that names the file, and no
\* dataset is dispatched, no directory created and no command invoked.
C10_BadRegistryAborts ==
  registry_file # "valid" =>
    /\ nextJob = 1
    /\ dirs = {}
    /\ \A i \in Positions : call[i].status = "pending"
    /\ phase = "exited" => (exit.status = "failure" /\ exit.names_file)

\* the calls that returned a Dataset Result
WithResult == {i \in Positions : call[i].result.some}

Succeeded == phase = "exited" /\ exit.status = "success"

SuccessLine(c) == \E k \in 1..Len(c.log) : c.log[k].msg = "processed successfully"

\* C12 as stated: a result returned on the skipped path has zero-filled
\* metrics and no success log line.
C12_SkippedZeroFilled ==
  \A i \in WithResult :
    call[i].skipped =>
      /\ call[i].result.total = 0
      /\ call[i].result.indexed = 0
      /\ call[i].result.unindexed = 0
      /\ ~SuccessLine(call[i])

\* C12 amended: a result returned on the skipped path carries the counts
\* read from the existing artifacts (at least one reflection), an empty list
\* of output files and no success log line; a freshly processed result has
\* two output files and a success log line, which distinguishes the two.
C12_SkippedDistinguishable ==
  \A i \in WithResult :
    /\ call[i].result.total > 0
    /\ call[i].result.total = call[i].result.indexed + call[i].result.unindexed
    /\ call[i].skipped =>
         (call[i].result.output_files = <<>> /\ ~SuccessLine(call[i]))
    /\ ~call[i].skipped =>
         (Len(call[i].result.output_files) = 2 /\ SuccessLine(call[i]))

\* a skipped and a freshly processed result in one run
C12_Witness ==
  \E i, j \in WithResult : call[i].skipped /\ ~call[j].skipped

IsPrefix(s, t) == Len(s) <= Len(t) /\ \A k \in 1..Len(s) : s[k] = t[k]

Ended(c) == c.status \in {"returned", "raised"}

\* the stage commands of a call that runs to the end, in order, under
\* parameters p
StageOrder(p) ==
  <<"import">>
  \o (IF GenerateMaskEnabled(p) THEN <<"generate_mask", "apply_mask">> ELSE <<>>)
  \o <<"find_spots">>
  \o (IF p.search_beam THEN <<"search_beam_position">> ELSE <<>>)
  \o (IF FindRotationAxisEnabled(p) THEN <<"find_rotation_axis">> ELSE <<>>)
  \o (IF TrivialSpacegroup(p) THEN <<"index">>
      ELSE (IF p.initial_index_P1 THEN <<"initial_index_P1">> ELSE <<>>)
           \o <<"index_space_group">>)
  \o <<"refine_static", "refine", "integrate">>

\* C13: the commands a call has invoked are always a prefix of the fixed
\* stage order with the disabled optional stages left out, so each stage is
\* invoked at most once and never again after it failed, and a call that
\* has returned or raised invokes no further command.
C13_StagesInFixedOrder ==
  /\ [](\A i \in Positions : IsPrefix(call[i].cmds, StageOrder(parameters)))
  /\ [][\A i \in Positions : Ended(call[i]) => call'[i].cmds = call[i].cmds]_vars

\* a call that aborted in static refinement after the beam search, while a
\* later dataset is still to run
C13_Witness ==
  \E i \in Positions :
    /\ call[i].status = "returned"
    /\ ~call[i].result.some
    /\ call[i].last.stage = "refine_static"
    /\ \E k \in 1..Len(call[i].cmds) : call[i].cmds[k] = "search_beam_position"
    /\ Len(call[i].cmds) < Len(StageOrder(parameters))
    /\ nextJob <= Len(datasets)

\* C14: every stage after import gets a current experiment artifact that
\* exists: the current artifact is bound when spot finding starts, and right
\* after a stage that may replace it, it is that stage's output only if the
\* output was produced, and otherwise still the stage's input.
C14_CurrentArtifactExists ==
  \A w \in Workers :
    Running(w) =>
      /\ pc[w] = "find_spots" => expt[w] # Unbound
      /\ call[job[w]].last.stage \in SwitchingStages =>
           IF call[job[w]].last.present
             THEN expt[w] \in {ArtifactOf(call[job[w]].last.stage), call[job[w]].last.input}
             ELSE expt[w] # ArtifactOf(call[job[w]].last.stage)

Count(seq, x) == Cardinality({k \in 1..Len(seq) : seq[k] = x})

\* C15: with the space group unset or P1 the unconstrained indexing is the
\* only indexing command and runs at most once; otherwise the constrained
\* indexing runs at most once, after a trivial-group pass exactly if
\* pre-indexing is enabled, on P1.expt exactly if that pass produced it;
\* and the call aborts after indexing exactly if indexed.expt is absent.
C15_IndexingBranches ==
  /\ \A i \in Positions :
       /\ Count(call[i].cmds, "index") <= (IF TrivialSpacegroup(parameters) THEN 1 ELSE 0)
       /\ Count(call[i].cmds, "index_space_group")
            <= (IF TrivialSpacegroup(parameters) THEN 0 ELSE 1)
       /\ Count(call[i].cmds, "index_space_group") = 1 =>
            Count(call[i].cmds, "initial_index_P1")
              = (IF parameters.initial_index_P1 THEN 1 ELSE 0)
       /\ TrivialSpacegroup(parameters) => Count(call[i].cmds, "initial_index_P1") = 0
       /\ call[i].last.stage \in {"index", "index_space_group"} =>
            ((call[i].status = "returned" /\ ~call[i].result.some)
               <=> ~call[i].last.present)
  /\ \A w \in Workers :
       (Running(w) /\ call[job[w]].last.stage = "initial_index_P1") =>
         ((expt[w] = "P1.expt") <=> call[job[w]].last.present)

InProgress == {i \in Positions : call[i].status = "running"}

\* C16: the number of datasets that have started and not yet returned never
\* exceeds the configured job count, and a worker that has a dataset takes
\* no other dataset before that one has returned or raised.
C16_AtMostNjobsInProgress ==
  /\ [](Cardinality(InProgress) <= parameters.njobs)
  /\ [][\A w \in Workers :
          (job[w] # 0 /\ job'[w] # job[w])
            => (job'[w] = 0 /\ Ended(call'[job[w]]))]_vars

\* two datasets in progress at once, one of them about to integrate
C16_Witness ==
  /\ Cardinality(InProgress) = 2
  /\ parameters.njobs = 2
  /\ \E w \in Workers : pc[w] = "integrate"

UniquePairs == \A i, j \in 1..Len(datasets) : i # j => datasets[i] # datasets[j]

Started == {i \in Positions : call[i].status # "pending"}

C19_StaleArtifactNeverPasses ==
  \A i \in Positions :
    (call[i].last.stage \in GatingStages /\ ~call[i].last.made)
      => (call[i].status = "returned" /\ ~call[i].result.some)

EqualEntries == {p \in (1..Len(datasets)) \X (1..Len(datasets)) :
                   p[1] < p[2] /\ datasets[p[1]] = datasets[p[2]]}

\* C18: the registry the builder writes never holds two equal descriptors,
\* and a scan with a pattern already scanned, over unchanged files, leaves
\* the entries of the registry and their order unchanged.
C18_NoEqualDescriptors ==
  /\ [](EqualEntries = {})
  /\ [][(registry_file = "valid" /\ images' = images /\ scanned' = scanned)
          => datasets' = datasets]_vars

SharedTemplate == \E f, g \in images : f # g /\ make_template(f) = make_template(g)

\* C18 amended: a scan keeps the entries of the registry and their order and
\* appends no descriptor equal to an entry the registry held before the
\* scan; a scan with a pattern already scanned, over unchanged files, adds
\* nothing; and the registry holds two equal descriptors only if two image
\* files have the same template.
C18_ScanAddsOnlyNewDescriptors ==
  /\ [](EqualEntries # {} => SharedTemplate)
  /\ [][registry_file = "valid" =>
          /\ IsPrefix(datasets, datasets')
          /\ \A k \in (Len(datasets) + 1)..Len(datasets') :
               \A j \in 1..Len(datasets) : datasets'[k] # datasets[j]
          /\ (images' = images /\ scanned' = scanned) => datasets' = datasets]_vars

\* both patterns were scanned over the same two first frames: the later
\* scan generated two descriptors and appended neither
C18_Witness ==
  /\ registry_file = "valid"
  /\ scanned = Patterns
  /\ Cardinality(images) = 2
  /\ \A f \in images : f.frame = 0
  /\ Len(datasets) = 2
  /\ EqualEntries = {}

\* C20: in every registry the builder writes, two distinct entries have
\* distinct (grid, xtal) pairs, hence distinct working directories.
C20_DistinctPairs ==
  \A i, j \in 1..Len(datasets) :
    datasets[i] # datasets[j]
      => <<datasets[i].grid, datasets[i].xtal>> # <<datasets[j].grid, datasets[j].xtal>>

====
